---- MODULE Spec2Model ----
(***************************************************************************)
(* Model of docker-images/fastapi/main.py: the credential bootstrap        *)
(* get_database_connection and the four request handlers built on it,      *)
(* running against one PostgreSQL database that holds the test_data table. *)
(*                                                                         *)
(* The handlers are "async def" coroutines that never yield while they     *)
(* talk to the database (psycopg2 is blocking), so the event loop runs one *)
(* handler at a time; /api/db-test is modelled statement by statement so   *)
(* that every statement can raise.                                         *)
(***************************************************************************)
EXTENDS Integers, Sequences, FiniteSets, TLC

VARIABLES
    config,       \* DATABASE_URL_SECRET, as a sequence of JSON tokens
    reachable,    \* TRUE when psycopg2.connect would succeed
    tableExists,  \* committed: the test_data table exists
    rows,         \* committed rows of test_data
    seq,          \* next value of the SERIAL sequence behind test_data.id
    clock,        \* database clock (CURRENT_TIMESTAMP)
    calls,        \* /api/db-test requests started so far
    handler,      \* the handler of the current request
    pc,           \* position of the current request inside its handler
    secret,       \* what get_database_connection did for the current request
    conn,         \* the current request's connection: "none", "open", "closed"
    txTable,      \* the open transaction created test_data
    txRows,       \* rows inserted by the open transaction, not yet committed
    txTime,       \* CURRENT_TIMESTAMP of the open transaction
    results,      \* cursor.fetchall() of the current request
    events,       \* calls made on the database by the current request, in order
    response      \* the HTTP response of the current request

vars == <<config, reachable, tableExists, rows, seq, clock, calls, handler, pc,
          secret, conn, txTable, txRows, txTime, results, events, response>>

dbVars == <<tableExists, rows, seq, clock>>
txVars == <<txTable, txRows, txTime, results>>

----------------------------------------------------------------------------
(* Bounds of the model. *)

MaxLen == 2      \* longest configuration text enumerated token by token
MaxPrior == 5    \* rows test_data may hold before the first request
MaxCalls == 2    \* /api/db-test requests in one behaviour

----------------------------------------------------------------------------
(* The configuration value and json.loads. *)

DefaultPort == 5432

RequiredKeys == <<"host", "dbname", "username", "password">>

Keys == {"host", "dbname", "username", "password", "port"}

\* Tokens that stand for a JSON string literal, a number, and the literals
\* NaN / Infinity / -Infinity that are not JSON but that json.loads accepts.
StringToks == Keys \cup {"str"}
NumTok == "num"
NonStandardToks == {"NaN"}

Alphabet == {"{", "}", "[", "]", ":", ",", "host", NumTok, "NaN"}

NoMembers == [k \in {} |-> "none"]

ParseFail == [ok |-> FALSE, next |-> 0, kind |-> "none", members |-> NoMembers]

Parsed(kind, next, members) ==
    [ok |-> TRUE, next |-> next, kind |-> kind, members |-> members]

RECURSIVE ParseValue(_, _, _)
RECURSIVE ParseElements(_, _, _)
RECURSIVE ParseMembers(_, _, _, _)

\* One JSON value starting at token i of s.  ext: accept the non-standard
\* literals, as Python's decoder does.  An object keeps, for each of its
\* keys, the kind of the value (a repeated key keeps the last value).
ParseValue(s, i, ext) ==
    IF i > Len(s) THEN ParseFail
    ELSE IF s[i] \in StringToks THEN Parsed("string", i + 1, NoMembers)
    ELSE IF s[i] = NumTok THEN Parsed("number", i + 1, NoMembers)
    ELSE IF s[i] \in NonStandardToks
        THEN IF ext THEN Parsed("nan", i + 1, NoMembers) ELSE ParseFail
    ELSE IF s[i] = "["
        THEN IF i + 1 <= Len(s) /\ s[i + 1] = "]"
             THEN Parsed("array", i + 2, NoMembers)
             ELSE ParseElements(s, i + 1, ext)
    ELSE IF s[i] = "{"
        THEN IF i + 1 <= Len(s) /\ s[i + 1] = "}"
             THEN Parsed("object", i + 2, NoMembers)
             ELSE ParseMembers(s, i + 1, ext, NoMembers)
    ELSE ParseFail

ParseElements(s, i, ext) ==
    LET v == ParseValue(s, i, ext) IN
    IF ~v.ok \/ v.next > Len(s) THEN ParseFail
    ELSE IF s[v.next] = "," THEN ParseElements(s, v.next + 1, ext)
    ELSE IF s[v.next] = "]" THEN Parsed("array", v.next + 1, NoMembers)
    ELSE ParseFail

ParseMembers(s, i, ext, members) ==
    IF i + 1 > Len(s) \/ s[i] \notin StringToks \/ s[i + 1] # ":" THEN ParseFail
    ELSE LET v == ParseValue(s, i + 2, ext)
             ms == (s[i] :> v.kind) @@ members
         IN  IF ~v.ok \/ v.next > Len(s) THEN ParseFail
             ELSE IF s[v.next] = "," THEN ParseMembers(s, v.next + 1, ext, ms)
             ELSE IF s[v.next] = "}" THEN Parsed("object", v.next + 1, ms)
             ELSE ParseFail

\* json.loads(text): the value, or ok = FALSE for JSONDecodeError.
Loads(text) ==
    LET v == ParseValue(text, 1, TRUE) IN
    IF v.ok /\ v.next = Len(text) + 1 THEN v ELSE ParseFail

\* text is well-formed JSON (the grammar without the non-standard literals).
WellFormedJSON(text) ==
    LET v == ParseValue(text, 1, FALSE) IN v.ok /\ v.next = Len(text) + 1

\* The keys of a well-formed JSON text (none unless it is an object).
JSONKeys(text) ==
    IF WellFormedJSON(text)
    THEN DOMAIN ParseValue(text, 1, FALSE).members ELSE {}

----------------------------------------------------------------------------
(* Configuration values the model starts from. *)

KeyOrder == <<"host", "dbname", "username", "password", "port">>

RECURSIVE RenderFrom(_, _, _, _)
\* The members of an object with the keys of ks, from key number i on;
\* val: the token written for every value; "port" is written as a number
\* unless val is the non-standard literal.
RenderFrom(ks, i, val, first) ==
    IF i > Len(KeyOrder) THEN <<>>
    ELSE IF KeyOrder[i] \notin ks THEN RenderFrom(ks, i + 1, val, first)
    ELSE (IF first THEN <<>> ELSE <<",">>)
         \o <<KeyOrder[i], ":",
              IF KeyOrder[i] = "port" /\ val = "str" THEN NumTok ELSE val>>
         \o RenderFrom(ks, i + 1, val, FALSE)

Render(ks, val) == <<"{">> \o RenderFrom(ks, 1, val, TRUE) \o <<"}">>

RECURSIVE TextsOfLen(_)
TextsOfLen(n) ==
    IF n = 0 THEN {<<>>}
    ELSE {Append(t, a) : t \in TextsOfLen(n - 1), a \in Alphabet}

ShortTexts == UNION {TextsOfLen(n) : n \in 0..MaxLen}

Objects == {Render(ks, "str") : ks \in SUBSET Keys}

FullKeys == {"host", "dbname", "username", "password"}

ConfigValues ==
    ShortTexts
    \cup Objects
    \cup {Render(FullKeys, "NaN"), Render(Keys, "NaN")}
    \cup {SubSeq(Render(Keys, "str"), 1, n) : n \in 1..3}
    \cup {Render(FullKeys, "str") \o <<"}">>,
          <<"[">> \o Render(FullKeys, "str") \o <<"]">>,
          <<"{", "port", ":", "str", "}">>,
          Render(FullKeys, "str") \o <<",">>}

----------------------------------------------------------------------------
(* get_database_connection *)

GivenPort == DefaultPort + 1

Outcome(branch, key, connects, port, opened) ==
    [branch |-> branch, key |-> key, connects |-> connects, port |-> port,
     opened |-> opened]

NoSecret == Outcome("none", "", 0, 0, FALSE)

RECURSIVE FirstMissing(_, _)
\* The first of secret['host'], secret['dbname'], secret['username'],
\* secret['password'] that raises KeyError, "" when none does.
FirstMissing(members, i) ==
    IF i > Len(RequiredKeys) THEN ""
    ELSE IF RequiredKeys[i] \notin DOMAIN members THEN RequiredKeys[i]
    ELSE FirstMissing(members, i + 1)

\* secret.get('port', 5432)
PortOf(members) ==
    IF "port" \notin DOMAIN members THEN DefaultPort
    ELSE IF members["port"] = "number" THEN GivenPort
    ELSE 0

\* psycopg2.connect returns a connection: the server is up and the
\* arguments are usable credentials.
ConnectSucceeds(members, up) ==
    /\ up
    /\ \A i \in 1..Len(RequiredKeys) : members[RequiredKeys[i]] = "string"
    /\ PortOf(members) # 0

\* opened: a connection is returned; otherwise None is returned, through
\* the branch named.  connects counts the calls of psycopg2.connect.
get_database_connection(cfg, up) ==
    IF cfg = <<>> THEN Outcome("empty", "", 0, 0, FALSE)
    ELSE LET v == Loads(cfg) IN
         IF ~v.ok THEN Outcome("JSONDecodeError", "", 0, 0, FALSE)
         ELSE IF v.kind # "object" THEN Outcome("Exception", "", 0, 0, FALSE)
         ELSE IF FirstMissing(v.members, 1) # ""
             THEN Outcome("KeyError", FirstMissing(v.members, 1), 0, 0, FALSE)
         ELSE IF ConnectSucceeds(v.members, up)
             THEN Outcome("connected", "", 1, PortOf(v.members), TRUE)
         ELSE Outcome("Exception", "", 1, PortOf(v.members), FALSE)

----------------------------------------------------------------------------
(* The database. *)

Canonical == "Hello from Stage3v3 FastAPI!"
Messages == {Canonical, "other"}

Row(id, message, at) == [id |-> id, message |-> message, created_at |-> at]

RECURSIVE OrderByCreatedAtDesc(_)
\* ORDER BY created_at DESC
OrderByCreatedAtDesc(S) ==
    IF S = {} THEN <<>>
    ELSE LET r == CHOOSE x \in S : \A y \in S : y.created_at <= x.created_at
         IN  <<r>> \o OrderByCreatedAtDesc(S \ {r})

\* Variant of Limit: the LIMIT clause is missing from the query.
Limit_Unbounded(s, n) == s

\* LIMIT n
Limit(s, n) == SubSeq(s, 1, IF Len(s) < n THEN Len(s) ELSE n)

RowLimit == 5

\* INSERT ... ON CONFLICT DO NOTHING: the row is dropped when it violates a
\* unique constraint of the table, and the only one is the primary key id.
InsertOnConflictDoNothing(table, row) ==
    IF \E r \in table : r.id = row.id THEN table ELSE table \cup {row}

----------------------------------------------------------------------------
(* Responses. *)

NoResponse ==
    [code |-> 0, status |-> "", database_connected |-> FALSE,
     detail |-> <<>>, test_data |-> <<>>]

Healthy == [NoResponse EXCEPT !.code = 200, !.status = "healthy"]

Operational(connected) ==
    [NoResponse EXCEPT !.code = 200, !.status = "operational",
                       !.database_connected = connected]

Success(data) ==
    [NoResponse EXCEPT !.code = 200, !.status = "success",
                       !.database_connected = TRUE, !.test_data = data]

\* HTTPException(status_code=500, detail=...); detail is the concatenation
\* of the strings of the sequence.
HTTPException(detail) == [NoResponse EXCEPT !.code = 500, !.detail = detail]

\* str(e) of the HTTPException raised when no connection was obtained
\* (the framework renders it as "<status_code>: <detail>").
StrConnectionFailed == "500: Database connection failed"

\* The except clause of database_test.
TestFailed(text) == HTTPException(<<"Database test failed: ", text>>)

Idle == pc \in {"idle", "done"}

----------------------------------------------------------------------------
(* State after start-up. *)

Init ==
    /\ config \in ConfigValues
    /\ reachable \in BOOLEAN
    /\ \E k \in 0..MaxPrior, m \in Messages, t \in BOOLEAN :
          /\ tableExists = t
          /\ rows = IF t THEN {Row(i, m, i) : i \in 1..k} ELSE {}
          /\ seq = IF t THEN k + 1 ELSE 1
    /\ clock = MaxPrior
    /\ calls = 0
    /\ handler = "none"
    /\ pc = "idle"
    /\ secret = NoSecret
    /\ conn = "none"
    /\ txTable = FALSE
    /\ txRows = {}
    /\ txTime = 0
    /\ results = <<>>
    /\ events = <<>>
    /\ response = NoResponse

----------------------------------------------------------------------------
(* Handlers. *)

\* Variant of health_check: the probe also tries the database, the way
\* /api/status does.
health_check_Probing ==
    /\ Idle
    /\ handler' = "health"
    /\ pc' = "done"
    /\ response' = Healthy
    /\ LET s == get_database_connection(config, reachable) IN
          /\ secret' = s
          /\ conn' = IF s.opened THEN "closed" ELSE "none"
          /\ events' = IF s.connects = 1 THEN <<"connect", "close">> ELSE <<>>
    /\ UNCHANGED <<config, reachable, dbVars, calls, txVars>>

\* GET /health
health_check ==
    /\ Idle
    /\ handler' = "health"
    /\ pc' = "done"
    /\ response' = Healthy
    /\ UNCHANGED <<config, reachable, dbVars, calls, secret, conn, txVars, events>>

\* Variant of check_database_connection: returns True without closing.
check_database_connection_NoClose(s, closeOk) ==
    IF s.opened
    THEN [result |-> TRUE, conn |-> "open", events |-> <<"connect">>]
    ELSE [result |-> FALSE, conn |-> "none",
          events |-> IF s.connects = 1 THEN <<"connect", "raise">> ELSE <<>>]

\* check_database_connection: closeOk is FALSE when conn.close() raises.
check_database_connection(s, closeOk) ==
    IF s.opened
    THEN IF closeOk
         THEN [result |-> TRUE, conn |-> "closed", events |-> <<"connect", "close">>]
         ELSE [result |-> FALSE, conn |-> "open",
               events |-> <<"connect", "close", "raise">>]
    ELSE [result |-> FALSE, conn |-> "none",
          events |-> IF s.connects = 1 THEN <<"connect", "raise">> ELSE <<>>]

\* GET /api/status
api_status ==
    /\ Idle
    /\ \E closeOk \in BOOLEAN :
          LET s == get_database_connection(config, reachable)
              c == check_database_connection(s, closeOk)
          IN  /\ secret' = s
              /\ conn' = c.conn
              /\ events' = c.events
              /\ response' = Operational(c.result)
    /\ handler' = "status"
    /\ pc' = "done"
    /\ txTable' = FALSE
    /\ txRows' = {}
    /\ txTime' = 0
    /\ results' = <<>>
    /\ UNCHANGED <<config, reachable, dbVars, calls>>

\* The except clause of database_test, entered from the statement `step`.
Except(step, text) ==
    /\ events' = events \o <<step, "raise">>
    /\ response' = TestFailed(text)
    /\ pc' = "done"

\* GET /api/db-test: get_database_connection and the check of its result.
database_test_connect ==
    /\ Idle
    /\ calls < MaxCalls
    /\ calls' = calls + 1
    /\ handler' = "dbtest"
    /\ LET s == get_database_connection(config, reachable) IN
          /\ secret' = s
          /\ IF s.opened
             THEN /\ conn' = "open"
                  /\ events' = <<"connect">>
                  /\ response' = NoResponse
                  /\ pc' = "create"
             ELSE /\ conn' = "none"
                  /\ events' = IF s.connects = 1 THEN <<"connect", "raise">> ELSE <<>>
                  /\ response' = TestFailed(StrConnectionFailed)
                  /\ pc' = "done"
    /\ txTable' = FALSE
    /\ txRows' = {}
    /\ txTime' = 0
    /\ results' = <<>>
    /\ UNCHANGED <<config, reachable, dbVars>>

\* conn.cursor() and CREATE TABLE IF NOT EXISTS test_data; the first
\* statement opens the transaction and fixes its CURRENT_TIMESTAMP.
database_test_create ==
    /\ pc = "create"
    /\ \E ok \in BOOLEAN :
          IF ok
          THEN /\ txTable' = ~tableExists
               /\ txTime' = clock + 1
               /\ clock' = clock + 1
               /\ events' = Append(events, "create")
               /\ pc' = "insert"
               /\ UNCHANGED response
          ELSE /\ Except("create", "create")
               /\ UNCHANGED <<txTable, txTime, clock>>
    /\ UNCHANGED <<config, reachable, tableExists, rows, seq, calls, handler,
                   secret, conn, txRows, results>>

\* Variant of database_test_insert: the connection is in autocommit mode,
\* so the inserted row is committed by the statement itself.
database_test_insert_Autocommit ==
    /\ pc = "insert"
    /\ tableExists
    /\ rows' = InsertOnConflictDoNothing(rows, Row(seq, Canonical, txTime))
    /\ seq' = seq + 1
    /\ events' = Append(events, "insert")
    /\ pc' = "select"
    /\ UNCHANGED <<config, reachable, tableExists, clock, calls, handler,
                   secret, conn, txVars, response>>

\* INSERT INTO test_data (message) VALUES (canonical) ON CONFLICT DO NOTHING.
\* nextval of the id sequence is not undone by a rollback; a sequence
\* created by this transaction starts at 1.
database_test_insert ==
    /\ pc = "insert"
    /\ \E ok \in BOOLEAN :
          IF ok
          THEN LET id == IF tableExists THEN seq ELSE 1
                   visible == rows \cup txRows
               IN  /\ txRows' = InsertOnConflictDoNothing(visible, Row(id, Canonical, txTime))
                                   \ rows
                   /\ seq' = IF tableExists THEN seq + 1 ELSE seq
                   /\ events' = Append(events, "insert")
                   /\ pc' = "select"
                   /\ UNCHANGED response
          ELSE /\ Except("insert", "insert")
               /\ UNCHANGED <<txRows, seq>>
    /\ UNCHANGED <<config, reachable, tableExists, rows, clock, calls, handler,
                   secret, conn, txTable, txTime, results>>

\* SELECT * FROM test_data ORDER BY created_at DESC LIMIT 5; fetchall()
database_test_select ==
    /\ pc = "select"
    /\ \E ok \in BOOLEAN :
          IF ok
          THEN /\ results' = Limit(OrderByCreatedAtDesc(rows \cup txRows), RowLimit)
               /\ events' = Append(events, "select")
               /\ pc' = "commit"
               /\ UNCHANGED response
          ELSE /\ Except("select", "select")
               /\ UNCHANGED results
    /\ UNCHANGED <<config, reachable, dbVars, calls, handler, secret, conn,
                   txTable, txRows, txTime>>

\* Variant of database_test_commit: an exception of conn.commit() is
\* swallowed and the handler goes on to close and respond.
database_test_commit_Swallowed ==
    /\ pc = "commit"
    /\ \E ok \in BOOLEAN :
          IF ok
          THEN /\ rows' = rows \cup txRows
               /\ tableExists' = (tableExists \/ txTable)
               /\ seq' = IF txTable THEN 1 + Cardinality(txRows) ELSE seq
               /\ txRows' = {}
               /\ txTable' = FALSE
               /\ events' = Append(events, "commit")
          ELSE /\ UNCHANGED <<rows, tableExists, seq, txRows, txTable, events>>
    /\ pc' = "close"
    /\ UNCHANGED <<config, reachable, clock, calls, handler, secret, conn,
                   txTime, results, response>>

\* conn.commit()
database_test_commit ==
    /\ pc = "commit"
    /\ \E ok \in BOOLEAN :
          IF ok
          THEN /\ rows' = rows \cup txRows
               /\ tableExists' = (tableExists \/ txTable)
               /\ seq' = IF txTable THEN 1 + Cardinality(txRows) ELSE seq
               /\ txRows' = {}
               /\ txTable' = FALSE
               /\ events' = Append(events, "commit")
               /\ pc' = "close"
               /\ UNCHANGED response
          ELSE /\ Except("commit", "commit")
               /\ UNCHANGED <<rows, tableExists, seq, txRows, txTable>>
    /\ UNCHANGED <<config, reachable, clock, calls, handler, secret, conn,
                   txTime, results>>

\* conn.close() and the return of the success body.
database_test_close ==
    /\ pc = "close"
    /\ \E ok \in BOOLEAN :
          IF ok
          THEN /\ conn' = "closed"
               /\ events' = Append(events, "close")
               /\ response' = Success(results)
               /\ pc' = "done"
          ELSE /\ Except("close", "close")
               /\ UNCHANGED conn
    /\ UNCHANGED <<config, reachable, dbVars, calls, handler, secret, txVars>>

\* The database server or the network goes down or comes back.
ToggleReachable ==
    /\ reachable' = ~reachable
    /\ UNCHANGED <<config, dbVars, calls, handler, pc, secret, conn, txVars,
                   events, response>>

Next ==
    \/ health_check
    \/ api_status
    \/ database_test_connect
    \/ database_test_create
    \/ database_test_insert
    \/ database_test_select
    \/ database_test_commit
    \/ database_test_close
    \/ ToggleReachable

Spec == Init /\ [][Next]_vars

----------------------------------------------------------------------------
(* Vocabulary of the properties. *)

StepOrder == <<"connect", "create", "insert", "select", "commit", "close">>

\* The current request raised inside the handler, and the statement that did.
Raised == Len(events) >= 2 /\ events[Len(events)] = "raise"
FailedStep == IF Raised THEN events[Len(events) - 1] ELSE ""

\* The current request has returned or raised.
DbTestDone == handler = "dbtest" /\ pc = "done"
StatusDone == handler = "status" /\ pc = "done"

\* Completed calls of a database operation in the current request.
Completed(op) ==
    Cardinality({i \in 1..Len(events) :
        /\ events[i] = op
        /\ ~(i < Len(events) /\ events[i + 1] = "raise")})

\* Rows written by the current request's transaction that are committed.
CommittedWrites == {r \in rows : r.created_at = txTime}

CanonicalRows(table) == {r \in table : r.message = Canonical}

InSeq(s) == {s[i] : i \in 1..Len(s)}

----------------------------------------------------------------------------
(* C1: in every execution of /api/db-test and /api/status in which        *)
(* get_database_connection returned an open connection, the connection is *)
(* closed exactly once before the handler returns or raises, also when    *)
(* table creation, the insert, the select or the commit fails.            *)
C1_ConnectionClosedOnce ==
    ((DbTestDone \/ StatusDone) /\ secret.opened /\ FailedStep # "close")
        => (conn = "closed" /\ Completed("close") = 1)

(* C2: the insert of /api/db-test is idempotent on the message: once the  *)
(* table holds a row with the canonical message, a call inserts nothing,  *)
(* so the table never holds more canonical rows than it did.              *)
C2_InsertIdempotent ==
    [][CanonicalRows(rows) # {} => CanonicalRows(rows') = CanonicalRows(rows)]_vars

(* C3: when /api/db-test obtains no connection, it responds 500 with the  *)
(* detail "Database connection failed", not "Database test failed: ...".  *)
C3_ConnectionFailedDetail ==
    (DbTestDone /\ ~secret.opened)
        => response = HTTPException(<<"Database connection failed">>)

(* C4 as stated: /api/status always answers 200 "operational", and      *)
(* database_connected is true exactly when a connection was opened, which *)
(* is then closed before the response.                                    *)
C4_StatusTrueIffOpened ==
    StatusDone =>
        /\ response.code = 200
        /\ response.status = "operational"
        /\ response.database_connected = secret.opened
        /\ (secret.opened => conn = "closed")

(* C4, amended: /api/status always answers 200 "operational";             *)
(* database_connected is true exactly when a connection was opened and    *)
(* its close() returned, and then the connection is closed; it is false   *)
(* when the configuration value is empty, when credential resolution or   *)
(* the connect fails, and when close() raises.                            *)
C4_StatusNeverFails ==
    StatusDone =>
        /\ response = Operational(response.database_connected)
        /\ response.database_connected = (secret.opened /\ FailedStep # "close")
        /\ (response.database_connected =>
                /\ conn = "closed"
                /\ Completed("close") = 1
                /\ FullKeys \subseteq DOMAIN Loads(config).members)
        /\ (config = <<>> => ~response.database_connected)
        /\ (secret.branch \in {"empty", "JSONDecodeError", "KeyError", "Exception"}
                => ~response.database_connected)

C4_Witness ==
    /\ StatusDone
    /\ response.database_connected
    /\ conn = "closed"

(* C5: /health answers 200 with status "healthy" in every state of the    *)
(* configuration and of the database; the step resolves no credentials,   *)
(* attempts no connection and leaves the database and all connection      *)
(* state unchanged.                                                       *)
C5_HealthIndependent ==
    /\ [](handler = "health" => response = Healthy)
    /\ [](Idle => ENABLED health_check)
    /\ [][(handler' = "health" /\ <<handler, pc, response>>' # <<handler, pc, response>>)
            => /\ response' = Healthy
               /\ pc' = "done"
               /\ UNCHANGED <<config, reachable, dbVars, calls, secret, conn,
                              txVars, events>>]_vars

C5_Witness ==
    /\ handler = "health"
    /\ response = Healthy
    /\ ~reachable
    /\ conn = "open"
    /\ txRows # {}

(* C6: for every non-empty configuration value that is not well-formed    *)
(* JSON, get_database_connection returns None through the JSONDecodeError *)
(* branch and psycopg2.connect is not called.                             *)
C6_MalformedIsParseFailure ==
    (secret # NoSecret /\ config # <<>> /\ ~WellFormedJSON(config))
        => /\ secret.branch = "JSONDecodeError"
           /\ ~secret.opened
           /\ secret.connects = 0

(* C7: for every well-formed JSON configuration value that lacks a        *)
(* required key, get_database_connection returns None through the         *)
(* KeyError branch naming a missing key, without calling connect; when    *)
(* only port is absent, connect is called with port 5432.                 *)
C7_MissingKeyIsKeyError ==
    (secret # NoSecret /\ WellFormedJSON(config))
        => /\ ~(FullKeys \subseteq JSONKeys(config))
                => /\ secret.branch = "KeyError"
                   /\ secret.key \in FullKeys \ JSONKeys(config)
                   /\ ~secret.opened
                   /\ secret.connects = 0
           /\ JSONKeys(config) = FullKeys
                => /\ secret.connects = 1
                   /\ secret.port = DefaultPort

(* C8 as stated: whenever a statement of /api/db-test raises after the    *)
(* connection was opened (create, insert, select, commit or close), the   *)
(* request's writes are left uncommitted and the response is 500 with     *)
(* "Database test failed: " followed by the error text.                   *)
C8_FailureLeavesUncommitted ==
    (DbTestDone /\ secret.opened /\ Raised)
        => /\ CommittedWrites = {}
           /\ Completed("commit") = 0
           /\ response = TestFailed(FailedStep)

(* C8, amended: whenever a statement of /api/db-test raises after the     *)
(* connection was opened, no commit follows the failure and the response  *)
(* is 500 with "Database test failed: " followed by the error text; the   *)
(* request's writes are uncommitted when the failure is in create,        *)
(* insert, select or commit, and are already committed when it is close() *)
(* that raises.                                                           *)
C8_FailureAbortsWithoutCommit ==
    (DbTestDone /\ secret.opened /\ Raised)
        => /\ response = TestFailed(FailedStep)
           /\ FailedStep \in InSeq(StepOrder) \ {"connect"}
           /\ \A i \in 1..Len(events) :
                 events[i] = "commit" => (i < Len(events) - 1 \/ FailedStep = "commit")
           /\ FailedStep # "close"
                => /\ CommittedWrites = {}
                   /\ Completed("commit") = 0
                   /\ (txTable => ~tableExists)
           /\ FailedStep = "close"
                => /\ Completed("commit") = 1
                   /\ CanonicalRows(CommittedWrites) # {}
                   /\ tableExists

C8_Witness ==
    /\ DbTestDone
    /\ FailedStep = "select"
    /\ txRows # {}
    /\ ~tableExists
    /\ txTable

C10_StepOrder ==
    handler = "dbtest" =>
        /\ \E n \in 0..Len(StepOrder) :
              \/ events = SubSeq(StepOrder, 1, n)
              \/ /\ n < Len(StepOrder)
                 /\ events = SubSeq(StepOrder, 1, n) \o <<StepOrder[n + 1], "raise">>
        /\ Raised => (pc = "done" /\ response.code = 500)
        /\ response.code = 200
              => /\ events = StepOrder
                 /\ pc = "done"
                 /\ conn = "closed"
                 /\ txRows = {}
                 /\ CanonicalRows(CommittedWrites) # {}
                 /\ response = Success(results)

C10_Witness ==
    /\ DbTestDone
    /\ response.code = 200
    /\ events = StepOrder

====
